---- MODULE Spec2Model ----
(***************************************************************************)
(* Model of the DAG library: the Graph Store (class DAG), the validator    *)
(* and traversal utilities (validateDAG, topologicalSort) and the VF2      *)
(* subgraph matcher (vf2SubgraphIsomorphism).                              *)
(*                                                                         *)
(* JavaScript Map and Set iterate in insertion order, and the algorithms   *)
(* iterate them, so a Map is modelled as a sequence of [key, value]        *)
(* entries and a Set as a sequence without repetitions.                    *)
(***************************************************************************)
EXTENDS Integers, Sequences, FiniteSets, TLC

VARIABLES nodeMap, outgoingEdges, incomingEdges,
          structure, validation, order,
          pattern, target, match,
          startArg, bfsOrder, dfsOrder

vars == <<nodeMap, outgoingEdges, incomingEdges,
          structure, validation, order,
          pattern, target, match,
          startArg, bfsOrder, dfsOrder>>

storeVars == <<nodeMap, outgoingEdges, incomingEdges>>
utilVars == <<structure, validation, order>>
vf2Vars == <<pattern, target, match>>
travVars == <<startArg, bfsOrder, dfsOrder>>

----------------------------------------------------------------------------
(* Generic sequence helpers *)

Range(s) == {s[i] : i \in 1..Len(s)}

SeqsUpTo(S, n) == UNION {[1..k -> S] : k \in 0..n}

NoRepeat(s) == \A i, j \in 1..Len(s) : i # j => s[i] # s[j]

----------------------------------------------------------------------------
(* JavaScript Set<string>: insertion-ordered, no repetitions *)

SetHas(s, x) == x \in Range(s)

SetAdd(s, x) == IF SetHas(s, x) THEN s ELSE Append(s, x)

SetDelete(s, x) == SelectSeq(s, LAMBDA y : y # x)

(* JavaScript Map<string, V>: insertion-ordered entries [key, value] *)

MapHas(m, k) == \E i \in 1..Len(m) : m[i].key = k

MapGet(m, k) == m[CHOOSE i \in 1..Len(m) : m[i].key = k].value

MapSet(m, k, v) ==
    IF MapHas(m, k)
    THEN [i \in 1..Len(m) |-> IF m[i].key = k THEN [key |-> k, value |-> v] ELSE m[i]]
    ELSE Append(m, [key |-> k, value |-> v])

MapDelete(m, k) == SelectSeq(m, LAMBDA e : e.key # k)

MapKeys(m) == [i \in 1..Len(m) |-> m[i].key]

MapValues(m) == [i \in 1..Len(m) |-> m[i].value]

(* map.get(k) ?? dflt *)
MapGetOr(m, k, dflt) == IF MapHas(m, k) THEN MapGet(m, k) ELSE dflt

----------------------------------------------------------------------------
(* types.ts: DAGNode, DAGEdge, DAGStructure *)

Undefined == [kind |-> "undefined", val |-> "", ref |-> ""]

Str(v) == [kind |-> "string", val |-> v, ref |-> ""]

Obj(ref, json) == [kind |-> "object", val |-> json, ref |-> ref]

DAGNode(id, data) == [id |-> id, data |-> data]

DAGEdge(from, to) == [from |-> from, to |-> to]

DAGStructure(nodes, edges) == [nodes |-> nodes, edges |-> edges]

NodeIds(s) == [i \in 1..Len(s.nodes) |-> s.nodes[i].id]

----------------------------------------------------------------------------
(* DAG.ts: class DAG.  A store value is the record of its three maps. *)

EmptyDAG == [nodeMap |-> <<>>, outgoingEdges |-> <<>>, incomingEdges |-> <<>>]

addNode(dag, node) ==
    [nodeMap |-> MapSet(dag.nodeMap, node.id, node),
     outgoingEdges |-> IF ~MapHas(dag.outgoingEdges, node.id)
                       THEN MapSet(dag.outgoingEdges, node.id, <<>>)
                       ELSE dag.outgoingEdges,
     incomingEdges |-> IF ~MapHas(dag.incomingEdges, node.id)
                       THEN MapSet(dag.incomingEdges, node.id, <<>>)
                       ELSE dag.incomingEdges]

(* this.outgoingEdges.get(from)?.add(to); this.incomingEdges.get(to)?.add(from) *)
(* each side is updated on its own: there is no test that both ends exist      *)
addEdge(dag, from, to) ==
    [nodeMap |-> dag.nodeMap,
     outgoingEdges |-> IF MapHas(dag.outgoingEdges, from)
                       THEN MapSet(dag.outgoingEdges, from,
                                   SetAdd(MapGet(dag.outgoingEdges, from), to))
                       ELSE dag.outgoingEdges,
     incomingEdges |-> IF MapHas(dag.incomingEdges, to)
                       THEN MapSet(dag.incomingEdges, to,
                                   SetAdd(MapGet(dag.incomingEdges, to), from))
                       ELSE dag.incomingEdges]

Scrub(m, id) == [i \in 1..Len(m) |-> [key |-> m[i].key, value |-> SetDelete(m[i].value, id)]]

(* a removal that leaves the id's own entry in the incoming map *)
removeNodeKeepIncomingKey(dag, id) ==
    [nodeMap |-> MapDelete(dag.nodeMap, id),
     outgoingEdges |-> Scrub(MapDelete(dag.outgoingEdges, id), id),
     incomingEdges |-> Scrub(dag.incomingEdges, id)]

removeNode(dag, id) ==
    [nodeMap |-> MapDelete(dag.nodeMap, id),
     outgoingEdges |-> Scrub(MapDelete(dag.outgoingEdges, id), id),
     incomingEdges |-> Scrub(MapDelete(dag.incomingEdges, id), id)]

getNodes(dag) == MapValues(dag.nodeMap)

getChildren(dag, id) == MapGetOr(dag.outgoingEdges, id, <<>>)

getParents(dag, id) == MapGetOr(dag.incomingEdges, id, <<>>)

getRoots(dag) ==
    LET roots == SelectSeq(getNodes(dag),
                           LAMBDA n : Len(MapGetOr(dag.incomingEdges, n.id, <<>>)) = 0)
    IN  [i \in 1..Len(roots) |-> roots[i].id]

clear(dag) == EmptyDAG

RECURSIVE addNodes(_, _, _)
addNodes(dag, nodes, i) ==
    IF i > Len(nodes) THEN dag ELSE addNodes(addNode(dag, nodes[i]), nodes, i + 1)

RECURSIVE addEdges(_, _, _)
addEdges(dag, edges, i) ==
    IF i > Len(edges) THEN dag
    ELSE addEdges(addEdge(dag, edges[i].from, edges[i].to), edges, i + 1)

load(dag, s) == addEdges(addNodes(clear(dag), s.nodes, 1), s.edges, 1)

(* new DAG(structure) *)
NewDAG(s) == load(EmptyDAG, s)

RECURSIVE entryEdges(_, _, _)
entryEdges(from, targets, i) ==
    IF i > Len(targets) THEN <<>>
    ELSE <<DAGEdge(from, targets[i])>> \o entryEdges(from, targets, i + 1)

RECURSIVE exportEdges(_, _)
exportEdges(out, i) ==
    IF i > Len(out) THEN <<>>
    ELSE entryEdges(out[i].key, out[i].value, 1) \o exportEdges(out, i + 1)

(* an export that reads the incoming map as if it were the outgoing one *)
toStructureFromIncoming(dag) ==
    DAGStructure(getNodes(dag), exportEdges(dag.incomingEdges, 1))

toStructure(dag) == DAGStructure(getNodes(dag), exportEdges(dag.outgoingEdges, 1))

----------------------------------------------------------------------------
(* utils.ts: findCycles *)

(* The five locals of findCycles that dfs closes over *)
InitCycleState ==
    [cycles |-> <<>>, visited |-> <<>>, recursionStack |-> <<>>,
     path |-> <<>>, pathIndex |-> <<>>]

(* visited.add; recursionStack.add; idx = path.length; path.push; pathIndex.set *)
DfsEnter(st, nodeId) ==
    [st EXCEPT !.visited = SetAdd(@, nodeId),
               !.recursionStack = SetAdd(@, nodeId),
               !.path = Append(@, nodeId),
               !.pathIndex = MapSet(@, nodeId, Len(st.path))]

(* path.pop; pathIndex.delete; recursionStack.delete: only on the "return false" exit *)
DfsLeave(st, nodeId) ==
    [st EXCEPT !.path = SubSeq(@, 1, Len(@) - 1),
               !.pathIndex = MapDelete(@, nodeId),
               !.recursionStack = SetDelete(@, nodeId)]

(* cycles.push([...path.slice(cycleStart), childId]) *)
RecordCycle(st, childId) ==
    LET cycleStart == MapGetOr(st.pathIndex, childId, 0)
    IN  [st EXCEPT !.cycles =
            Append(@, SubSeq(st.path, cycleStart + 1, Len(st.path)) \o <<childId>>)]

(* a back-edge test that overlooks an edge from the current node to itself *)
OnStackExceptSelf(st, childId) ==
    SetHas(st.recursionStack, childId) /\ childId # st.path[Len(st.path)]

(* the back-edge test of dfs: the child is on the recursion stack *)
OnStack(st, childId) == SetHas(st.recursionStack, childId)

RECURSIVE dfs(_, _, _)
RECURSIVE dfsChildren(_, _, _, _)

dfsChildren(dag, children, i, st) ==
    IF i > Len(children) THEN [found |-> FALSE, st |-> st]
    ELSE LET childId == children[i] IN
         IF ~SetHas(st.visited, childId)
         THEN LET r == dfs(dag, childId, st)
              IN  IF r.found THEN r ELSE dfsChildren(dag, children, i + 1, r.st)
         ELSE IF OnStack(st, childId)
              THEN [found |-> TRUE, st |-> RecordCycle(st, childId)]
              ELSE dfsChildren(dag, children, i + 1, st)

dfs(dag, nodeId, st) ==
    LET r == dfsChildren(dag, getChildren(dag, nodeId), 1, DfsEnter(st, nodeId))
    IN  IF r.found THEN r
        ELSE [found |-> FALSE, st |-> DfsLeave(r.st, nodeId)]

RECURSIVE findCyclesLoop(_, _, _, _)
findCyclesLoop(dag, nodeIds, i, st) ==
    IF i > Len(nodeIds) THEN st
    ELSE IF ~SetHas(st.visited, nodeIds[i])
         THEN findCyclesLoop(dag, nodeIds, i + 1, dfs(dag, nodeIds[i], st).st)
         ELSE findCyclesLoop(dag, nodeIds, i + 1, st)

findCycles(dag) ==
    LET nodes == getNodes(dag)
        nodeIds == [i \in 1..Len(nodes) |-> nodes[i].id]
    IN  findCyclesLoop(dag, nodeIds, 1, InitCycleState).cycles

----------------------------------------------------------------------------
(* utils.ts: validateDAG *)

(* x.length > 0 ? x : undefined *)
Optional(list) ==
    IF Len(list) > 0 THEN [present |-> TRUE, value |-> list]
    ELSE [present |-> FALSE, value |-> <<>>]

RECURSIVE missingRefs(_, _, _)
missingRefs(s, nodeIds, i) ==
    IF i > Len(s.edges) THEN <<>>
    ELSE LET edge == s.edges[i] IN
         (IF edge.from \notin nodeIds
          THEN <<[edge |-> edge, missing |-> "from"]>> ELSE <<>>)
         \o (IF edge.to \notin nodeIds
             THEN <<[edge |-> edge, missing |-> "to"]>> ELSE <<>>)
         \o missingRefs(s, nodeIds, i + 1)

orphans(s) ==
    LET isOrphan(n) ==
            LET hasIn == \E k \in 1..Len(s.edges) : s.edges[k].to = n.id
                hasOut == \E k \in 1..Len(s.edges) : s.edges[k].from = n.id
            IN  ~hasIn /\ ~hasOut
        kept == SelectSeq(s.nodes, isOrphan)
    IN  [i \in 1..Len(kept) |-> kept[i].id]

(* a validator that also refuses structures with orphan nodes *)
validateDAGOrphansInvalid(s) ==
    LET dag == NewDAG(s)
        nodeIds == Range(NodeIds(s))
        missingReferences == missingRefs(s, nodeIds, 1)
        cycles == findCycles(dag)
        orphanNodes == orphans(s)
    IN  [isValid |-> Len(missingReferences) = 0 /\ Len(cycles) = 0 /\ Len(orphanNodes) = 0,
         isAcyclic |-> Len(cycles) = 0,
         cycles |-> Optional(cycles),
         orphanNodes |-> Optional(orphanNodes),
         missingReferences |-> Optional(missingReferences)]

validateDAG(s) ==
    LET dag == NewDAG(s)
        nodeIds == Range(NodeIds(s))
        missingReferences == missingRefs(s, nodeIds, 1)
        cycles == findCycles(dag)
        orphanNodes == orphans(s)
    IN  [isValid |-> Len(missingReferences) = 0 /\ Len(cycles) = 0,
         isAcyclic |-> Len(cycles) = 0,
         cycles |-> Optional(cycles),
         orphanNodes |-> Optional(orphanNodes),
         missingReferences |-> Optional(missingReferences)]

----------------------------------------------------------------------------
(* utils.ts: topologicalSort (Kahn) *)

RECURSIVE zeroDegrees(_, _, _)
zeroDegrees(inDegree, nodes, i) ==
    IF i > Len(nodes) THEN inDegree
    ELSE zeroDegrees(MapSet(inDegree, nodes[i].id, 0), nodes, i + 1)

(* inDegree.set(edge.to, (inDegree.get(edge.to) ?? 0) + 1), once per listed edge *)
RECURSIVE countDegrees(_, _, _)
countDegrees(inDegree, edges, i) ==
    IF i > Len(edges) THEN inDegree
    ELSE countDegrees(MapSet(inDegree, edges[i].to, MapGetOr(inDegree, edges[i].to, 0) + 1),
                      edges, i + 1)

initialQueue(inDegree) ==
    MapKeys(SelectSeq(inDegree, LAMBDA e : e.value = 0))

(* the for-loop over dag.getChildren(id): k = [queue, inDegree] *)
RECURSIVE relaxChildren(_, _, _)
relaxChildren(children, i, k) ==
    IF i > Len(children) THEN k
    ELSE LET child == children[i]
             deg == MapGetOr(k.inDegree, child, 1) - 1
         IN  relaxChildren(children, i + 1,
                 [queue |-> IF deg = 0 THEN Append(k.queue, child) ELSE k.queue,
                  inDegree |-> MapSet(k.inDegree, child, deg)])

RECURSIVE kahnLoop(_, _, _, _)
kahnLoop(dag, queue, inDegree, result) ==
    IF Len(queue) = 0 THEN result
    ELSE LET id == Head(queue)
             k == relaxChildren(getChildren(dag, id), 1,
                                [queue |-> Tail(queue), inDegree |-> inDegree])
         IN  kahnLoop(dag, k.queue, k.inDegree, Append(result, id))

topologicalSort(s) ==
    LET dag == NewDAG(s)
        inDegree == countDegrees(zeroDegrees(<<>>, s.nodes, 1), s.edges, 1)
    IN  kahnLoop(dag, initialQueue(inDegree), inDegree, <<>>)

----------------------------------------------------------------------------
(* utils.ts: bfsFromRoots, dfsPostOrder *)

(* the optional parameter startIds *)
NoStart == [given |-> FALSE, ids |-> <<>>]

StartAt(ids) == [given |-> TRUE, ids |-> ids]

(* startIds ?? dag.getRoots() *)
startOf(dag, startIds) == IF startIds.given THEN startIds.ids ELSE getRoots(dag)

(* the children pushed by one round of the while loop: those not yet visited *)
unvisitedChildren(dag, id, visited) ==
    SelectSeq(getChildren(dag, id), LAMBDA child : ~SetHas(visited, child))

RECURSIVE bfsLoop(_, _, _, _)
bfsLoop(dag, queue, visited, result) ==
    IF Len(queue) = 0 THEN result
    ELSE LET id == Head(queue) IN
         IF SetHas(visited, id) THEN bfsLoop(dag, Tail(queue), visited, result)
         ELSE LET seen == SetAdd(visited, id)
              IN  bfsLoop(dag, Tail(queue) \o unvisitedChildren(dag, id, seen),
                          seen, Append(result, id))

bfsFromRoots(s, startIds) ==
    LET dag == NewDAG(s)
    IN  bfsLoop(dag, startOf(dag, startIds), <<>>, <<>>)

(* visit(id) and its loop over the children: st = [visited, result] *)
RECURSIVE visit(_, _, _)
RECURSIVE visitAll(_, _, _, _)

visitAll(dag, ids, i, st) ==
    IF i > Len(ids) THEN st ELSE visitAll(dag, ids, i + 1, visit(dag, ids[i], st))

(* a visit that appends the node before it descends *)
visitPreOrder(dag, id, st) ==
    IF SetHas(st.visited, id) THEN st
    ELSE visitAll(dag, getChildren(dag, id), 1,
                  [visited |-> SetAdd(st.visited, id), result |-> Append(st.result, id)])

visit(dag, id, st) ==
    IF SetHas(st.visited, id) THEN st
    ELSE LET after == visitAll(dag, getChildren(dag, id), 1,
                               [st EXCEPT !.visited = SetAdd(@, id)])
         IN  [after EXCEPT !.result = Append(@, id)]

dfsPostOrder(s, startIds) ==
    LET dag == NewDAG(s)
    IN  visitAll(dag, startOf(dag, startIds), 1,
                 [visited |-> <<>>, result |-> <<>>]).result

----------------------------------------------------------------------------
(* vf2.ts *)

dataMatches(a, b) ==
    IF a = b THEN TRUE
    ELSE IF a.kind \in {"undefined", "null"} \/ b.kind \in {"undefined", "null"} THEN FALSE
    ELSE IF a.kind = "object" /\ b.kind = "object" THEN a.val = b.val
    ELSE FALSE

RECURSIVE emptySets(_, _, _)
emptySets(m, nodes, i) ==
    IF i > Len(nodes) THEN m ELSE emptySets(MapSet(m, nodes[i].id, <<>>), nodes, i + 1)

RECURSIVE fillAdjacency(_, _, _, _)
fillAdjacency(adj, edges, nodeIds, i) ==
    IF i > Len(edges) THEN adj
    ELSE LET e == edges[i] IN
         IF e.from \in nodeIds /\ e.to \in nodeIds
         THEN fillAdjacency(
                  [outgoing |-> MapSet(adj.outgoing, e.from,
                                       SetAdd(MapGet(adj.outgoing, e.from), e.to)),
                   incoming |-> MapSet(adj.incoming, e.to,
                                       SetAdd(MapGet(adj.incoming, e.to), e.from))],
                  edges, nodeIds, i + 1)
         ELSE fillAdjacency(adj, edges, nodeIds, i + 1)

buildAdjacency(s) ==
    LET empty == emptySets(<<>>, s.nodes, 1)
    IN  fillAdjacency([outgoing |-> empty, incoming |-> empty],
                      s.edges, Range(NodeIds(s)), 1)

(* new Map(structure.nodes.map((n) => [n.id, n])) *)
RECURSIVE nodeIndex(_, _, _)
nodeIndex(m, nodes, i) ==
    IF i > Len(nodes) THEN m ELSE nodeIndex(MapSet(m, nodes[i].id, nodes[i]), nodes, i + 1)

(* what the closures feasible and search read *)
Context(pat, tgt) ==
    [pNodes |-> NodeIds(pat), tNodes |-> NodeIds(tgt),
     pAdj |-> buildAdjacency(pat), tAdj |-> buildAdjacency(tgt),
     pNodeMap |-> nodeIndex(<<>>, pat.nodes, 1),
     tNodeMap |-> nodeIndex(<<>>, tgt.nodes, 1)]

(* a degree rule that only asks the target node for enough neighbours *)
degreeAtLeast(ctx, p, t) ==
    LET pOut == Len(MapGetOr(ctx.pAdj.outgoing, p, <<>>))
        pIn == Len(MapGetOr(ctx.pAdj.incoming, p, <<>>))
        tOut == Len(MapGetOr(ctx.tAdj.outgoing, t, <<>>))
        tIn == Len(MapGetOr(ctx.tAdj.incoming, t, <<>>))
    IN  pOut <= tOut /\ pIn <= tIn

degreeConsistent(ctx, p, t) ==
    LET pOut == Len(MapGetOr(ctx.pAdj.outgoing, p, <<>>))
        pIn == Len(MapGetOr(ctx.pAdj.incoming, p, <<>>))
        tOut == Len(MapGetOr(ctx.tAdj.outgoing, t, <<>>))
        tIn == Len(MapGetOr(ctx.tAdj.incoming, t, <<>>))
        isRoot == pIn = 0
        isLeaf == pOut = 0
    IN  /\ ~(isRoot /\ pOut # tOut)
        /\ ~(isLeaf /\ pIn # tIn)
        /\ ~(~isRoot /\ ~isLeaf /\ (pOut # tOut \/ pIn # tIn))

(* the two neighbour loops: only neighbours that are already in mapping are tested *)
neighboursConsistent(ctx, mapping, p, t) ==
    /\ \A p2 \in Range(MapGetOr(ctx.pAdj.outgoing, p, <<>>)) :
          MapHas(mapping, p2) =>
             SetHas(MapGetOr(ctx.tAdj.outgoing, t, <<>>), MapGet(mapping, p2))
    /\ \A p1 \in Range(MapGetOr(ctx.pAdj.incoming, p, <<>>)) :
          MapHas(mapping, p1) =>
             SetHas(MapGetOr(ctx.tAdj.incoming, t, <<>>), MapGet(mapping, p1))

feasible(ctx, mapping, p, t) ==
    /\ dataMatches(MapGet(ctx.pNodeMap, p).data, MapGet(ctx.tNodeMap, t).data)
    /\ degreeConsistent(ctx, p, t)
    /\ neighboursConsistent(ctx, mapping, p, t)

(* a used-target set that is never filled *)
usedTargetsEmpty(mapping) == {}

(* new Set(mapping.values()) *)
usedTargets(mapping) == Range(MapValues(mapping))

(* pNodes.find((id) => !mapping.has(id)): the index of the first hit, 0 for undefined *)
firstUnmapped(ctx, mapping) ==
    IF \E i \in 1..Len(ctx.pNodes) : ~MapHas(mapping, ctx.pNodes[i])
    THEN CHOOSE i \in 1..Len(ctx.pNodes) :
            /\ ~MapHas(mapping, ctx.pNodes[i])
            /\ \A j \in 1..(i - 1) : MapHas(mapping, ctx.pNodes[j])
    ELSE 0

(* mapping.delete(p) on the way back from a failed branch *)
UndoNothing(mapping, p) == mapping

Undo(mapping, p) == MapDelete(mapping, p)

(* what a run of the matcher is observed to do: the number of search() calls, *)
(* the assignments undone, and every call of feasible(p, t) with the indices  *)
(* of p in pNodes (0 for undefined) and of t in tNodes and the keys of        *)
(* mapping at that moment                                                     *)
NoLog == [calls |-> 0, undone |-> 0, trials |-> <<>>]

Trial(pi, k, mapping) == [p |-> pi, t |-> k, mapped |-> MapKeys(mapping)]

(* search() and its loop over tNodes.  The result carries the mapping as the  *)
(* call leaves it; status is "found" (true), "exhausted" (false) or           *)
(* "TypeError" (feasible dereferences pNodeMap.get(undefined)).               *)
RECURSIVE search(_, _, _)
RECURSIVE tryTargets(_, _, _, _, _, _)

tryTargets(ctx, pi, used, k, mapping, log) ==
    IF k > Len(ctx.tNodes)
    THEN [status |-> "exhausted", mapping |-> mapping, log |-> log]
    ELSE LET t == ctx.tNodes[k]
             tried == [log EXCEPT !.trials = Append(@, Trial(pi, k, mapping))]
         IN
         IF t \in used THEN tryTargets(ctx, pi, used, k + 1, mapping, log)
         ELSE IF pi = 0
              THEN [status |-> "TypeError", mapping |-> mapping, log |-> tried]
         ELSE IF ~feasible(ctx, mapping, ctx.pNodes[pi], t)
              THEN tryTargets(ctx, pi, used, k + 1, mapping, tried)
         ELSE LET r == search(ctx, MapSet(mapping, ctx.pNodes[pi], t), tried)
              IN  IF r.status # "exhausted" THEN r
                  ELSE tryTargets(ctx, pi, used, k + 1,
                                  Undo(r.mapping, ctx.pNodes[pi]),
                                  [r.log EXCEPT !.undone = @ + 1])

search(ctx, mapping, log) ==
    LET entered == [log EXCEPT !.calls = @ + 1] IN
    IF Len(mapping) = Len(ctx.pNodes)
    THEN [status |-> "found", mapping |-> mapping, log |-> entered]
    ELSE tryTargets(ctx, firstUnmapped(ctx, mapping), usedTargets(mapping), 1,
                    mapping, entered)

(* what the caller gets: a Map ("map"), null, or an exception ("throw") *)
Outcome(status, mapping, log) ==
    [status |-> status, mapping |-> mapping, undone |-> log.undone,
     calls |-> log.calls, trials |-> log.trials]

(* the value of `match` before the matcher has run *)
NoMatch == Outcome("unset", <<>>, NoLog)

(* the matcher without its two early returns *)
vf2AlwaysSearch(pat, tgt) ==
    LET r == search(Context(pat, tgt), <<>>, NoLog)
    IN  CASE r.status = "found" -> Outcome("map", r.mapping, r.log)
          [] r.status = "exhausted" -> Outcome("null", <<>>, r.log)
          [] OTHER -> Outcome("throw", <<>>, r.log)

vf2SubgraphIsomorphism(pat, tgt) ==
    IF Len(pat.nodes) = 0 THEN Outcome("map", <<>>, NoLog)
    ELSE IF Len(pat.nodes) > Len(tgt.nodes) THEN Outcome("null", <<>>, NoLog)
    ELSE LET r == search(Context(pat, tgt), <<>>, NoLog)
         IN  CASE r.status = "found" -> Outcome("map", r.mapping, r.log)
               [] r.status = "exhausted" -> Outcome("null", <<>>, r.log)
               [] OTHER -> Outcome("throw", <<>>, r.log)

----------------------------------------------------------------------------
(* Inputs *)

(* Bounds on the edge lists of the enumerated structures *)
MaxEdges == 3
MaxPatternEdges == 2
MaxTargetEdges == 2
MaxLoadEdges == 2

(* Bounds on the malformed structures: listed nodes (identifiers may repeat) and edges *)
MaxListedNodes == 2
MaxMalformedEdges == 1

(* Bounds on the traversals from a start set: listed edges and listed start identifiers *)
MaxStartEdges == 2
MaxStartIds == 2

Bare(id) == DAGNode(id, Undefined)

(* node lists over ids without repeated identifiers, every order *)
NodeLists(ids, payloads) ==
    {[i \in 1..Len(l) |-> DAGNode(l[i], d[l[i]])] :
        l \in {s \in SeqsUpTo(ids, Cardinality(ids)) : NoRepeat(s)},
        d \in [ids -> payloads]}

AllEdges(ids) == {DAGEdge(f, t) : f, t \in ids}

(* every edge list of at most n edges: any order, repeated edges, and edges *)
(* whose ends are not among the listed nodes                                *)
EdgeLists(ids, n) == SeqsUpTo(AllEdges(ids), n)

(* edge lists up to order: listed by a fixed enumeration of the pairs *)
PairAt(idList, k) ==
    DAGEdge(idList[((k - 1) \div Len(idList)) + 1], idList[((k - 1) % Len(idList)) + 1])

SortedEdgeLists(idList, n) ==
    LET m == Len(idList) * Len(idList)
    IN  {[i \in 1..Len(f) |-> PairAt(idList, f[i])] :
            f \in {g \in SeqsUpTo(1..m, n) : \A i \in 1..(Len(g) - 1) : g[i] <= g[i + 1]}}

(* Graph Store and utilities *)
StoreIdList == <<"a", "b">>
StoreIds == Range(StoreIdList)
StorePayloads == {Undefined, Str("A")}
UtilIds == {"x", "y", "z"}

UtilStructures ==
    {DAGStructure(ns, es) : ns \in NodeLists(UtilIds, {Undefined}),
                            es \in EdgeLists(UtilIds, MaxEdges)}

LoadStructures ==
    {DAGStructure(ns, es) : ns \in NodeLists(StoreIds, StorePayloads),
                            es \in EdgeLists(StoreIds, MaxLoadEdges)}

(* Traversals from a start set: identifiers may repeat and need not be nodes *)
StartStructures ==
    {DAGStructure(ns, es) : ns \in NodeLists(UtilIds, {Undefined}),
                            es \in EdgeLists(UtilIds, MaxStartEdges)}

StartSets == {NoStart} \cup {StartAt(ids) : ids \in SeqsUpTo(UtilIds, MaxStartIds)}

(* Matcher: payload-free topologies *)
PatternIdList == <<"p", "q">>
TargetIdList == <<"a", "b", "c">>

TopologyPatterns ==
    {DAGStructure(ns, es) : ns \in NodeLists(Range(PatternIdList), {Undefined}),
                            es \in EdgeLists(Range(PatternIdList), MaxPatternEdges)}

TopologyTargets ==
    {DAGStructure(ns, es) : ns \in NodeLists(Range(TargetIdList), {Undefined}),
                            es \in SortedEdgeLists(TargetIdList, MaxTargetEdges)}

(* Matcher: payloads (primitives, absent data, objects parsed from JSON) *)
PatternPayloads == {Undefined, Str("A"), Obj("pattern.json#1", "{\"k\":1}")}
TargetPayloads == {Undefined, Str("A"), Str("B"), Obj("target.json#1", "{\"k\":1}")}

PayloadPatterns ==
    {DAGStructure(ns, es) : ns \in NodeLists({"p", "q"}, PatternPayloads),
                            es \in {<<>>, <<DAGEdge("p", "q")>>}}

PayloadTargets ==
    {DAGStructure(ns, es) : ns \in NodeLists({"a", "b"}, TargetPayloads),
                            es \in {<<>>, <<DAGEdge("a", "b")>>}}

(* Matcher: malformed content, node lists in which an identifier may repeat *)
RepeatingNodeLists(ids, n) ==
    {[i \in 1..Len(l) |-> Bare(l[i])] : l \in SeqsUpTo(ids, n)}

MalformedPatterns ==
    {DAGStructure(ns, es) : ns \in RepeatingNodeLists(Range(PatternIdList), MaxListedNodes),
                            es \in EdgeLists(Range(PatternIdList), MaxMalformedEdges)}

MalformedTargets ==
    {DAGStructure(ns, es) : ns \in RepeatingNodeLists(StoreIds, MaxListedNodes),
                            es \in EdgeLists(StoreIds, MaxMalformedEdges)}

(* examples.ts and DAGTestViewer.tsx *)
DEFAULT_TARGET ==
    DAGStructure(
        <<DAGNode("a", Str("Task A")), DAGNode("b", Str("Task B")),
          DAGNode("c", Str("Task C")), DAGNode("d", Str("Task D")),
          DAGNode("e", Str("Task E"))>>,
        <<DAGEdge("a", "b"), DAGEdge("a", "c"), DAGEdge("b", "d"),
          DAGEdge("c", "d"), DAGEdge("d", "e")>>)

DEFAULT_PATTERN ==
    DAGStructure(
        <<DAGNode("p", Str("Task A")), DAGNode("q", Str("Task B")),
          DAGNode("r", Str("Task D"))>>,
        <<DAGEdge("p", "q"), DAGEdge("q", "r")>>)

(* the diamond and the single edge of the matcher round-trip property *)
DiamondTarget ==
    DAGStructure(<<Bare("a"), Bare("b"), Bare("c"), Bare("d")>>,
                 <<DAGEdge("a", "b"), DAGEdge("a", "c"), DAGEdge("b", "d"),
                   DAGEdge("c", "d")>>)

SingleEdgePattern ==
    DAGStructure(<<Bare("p"), Bare("q")>>, <<DAGEdge("p", "q")>>)

(* a self-loop listed first, then a chain of three: the single edge fits the *)
(* chain twice, after the self-loop has been tried and given up              *)
SelfLoopThenChain ==
    DAGStructure(<<Bare("a"), Bare("b"), Bare("c"), Bare("d")>>,
                 <<DAGEdge("a", "a"), DAGEdge("b", "c"), DAGEdge("c", "d")>>)

EmptyStructure == DAGStructure(<<>>, <<>>)

----------------------------------------------------------------------------
(* State machines *)

NotRun == [ran |-> FALSE, value |-> <<>>]

Ran(v) == [ran |-> TRUE, value |-> v]

Store == [nodeMap |-> nodeMap, outgoingEdges |-> outgoingEdges,
          incomingEdges |-> incomingEdges]

SetStore(dag) ==
    /\ nodeMap' = dag.nodeMap
    /\ outgoingEdges' = dag.outgoingEdges
    /\ incomingEdges' = dag.incomingEdges

StoreIdle == nodeMap = <<>> /\ outgoingEdges = <<>> /\ incomingEdges = <<>>
UtilIdle == structure = EmptyStructure /\ validation = NotRun /\ order = NotRun
VF2Idle == pattern = EmptyStructure /\ target = EmptyStructure /\ match = NoMatch
TravIdle == startArg = NoStart /\ bfsOrder = NotRun /\ dfsOrder = NotRun

(* Graph Store: one action per public mutator *)
CallAddNode(node) == SetStore(addNode(Store, node)) /\ UNCHANGED <<utilVars, vf2Vars, travVars>>

CallAddEdge(from, to) == SetStore(addEdge(Store, from, to)) /\ UNCHANGED <<utilVars, vf2Vars, travVars>>

CallRemoveNode(id) == SetStore(removeNode(Store, id)) /\ UNCHANGED <<utilVars, vf2Vars, travVars>>

CallLoad(s) == SetStore(load(Store, s)) /\ UNCHANGED <<utilVars, vf2Vars, travVars>>

CallClear == SetStore(clear(Store)) /\ UNCHANGED <<utilVars, vf2Vars, travVars>>

StoreInit == StoreIdle /\ UtilIdle /\ VF2Idle /\ TravIdle

StoreNext ==
    \/ \E id \in StoreIds, data \in StorePayloads : CallAddNode(DAGNode(id, data))
    \/ \E from, to \in StoreIds : CallAddEdge(from, to)
    \/ \E id \in StoreIds : CallRemoveNode(id)
    \/ \E s \in LoadStructures : CallLoad(s)
    \/ CallClear

SpecStore == StoreInit /\ [][StoreNext]_vars

(* Validator and traversal engine applied to one input structure *)
CallValidateDAG ==
    /\ ~validation.ran
    /\ validation' = Ran(validateDAG(structure))
    /\ UNCHANGED <<structure, order, storeVars, vf2Vars, travVars>>

CallTopologicalSort ==
    /\ ~order.ran
    /\ order' = Ran(topologicalSort(structure))
    /\ UNCHANGED <<structure, validation, storeVars, vf2Vars, travVars>>

UtilInit ==
    /\ structure \in UtilStructures
    /\ validation = NotRun /\ order = NotRun
    /\ StoreIdle /\ VF2Idle /\ TravIdle

UtilNext == CallValidateDAG \/ CallTopologicalSort

SpecUtil == UtilInit /\ [][UtilNext]_vars

(* Matcher applied to one pattern and one target *)
CallVF2 ==
    /\ match.status = "unset"
    /\ match' = vf2SubgraphIsomorphism(pattern, target)
    /\ UNCHANGED <<pattern, target, storeVars, utilVars, travVars>>

VF2Init ==
    /\ \/ pattern \in TopologyPatterns /\ target \in TopologyTargets
       \/ pattern \in PayloadPatterns /\ target \in PayloadTargets
       \/ pattern = SingleEdgePattern /\ target = DiamondTarget
       \/ pattern = SingleEdgePattern /\ target = SelfLoopThenChain
       \/ pattern = DEFAULT_PATTERN /\ target = DEFAULT_TARGET
    /\ match = NoMatch
    /\ StoreIdle /\ UtilIdle /\ TravIdle

VF2Next == CallVF2

SpecVF2 == VF2Init /\ [][VF2Next]_vars

(* Matcher applied to malformed content *)
MalformedInit ==
    /\ pattern \in MalformedPatterns /\ target \in MalformedTargets
    /\ match = NoMatch
    /\ StoreIdle /\ UtilIdle /\ TravIdle

SpecMalformed == MalformedInit /\ [][VF2Next]_vars

(* Traversal engine applied to one input structure and one startIds argument *)
CallBfsFromRoots ==
    /\ ~bfsOrder.ran
    /\ bfsOrder' = Ran(bfsFromRoots(structure, startArg))
    /\ UNCHANGED <<startArg, dfsOrder, utilVars, storeVars, vf2Vars>>

CallDfsPostOrder ==
    /\ ~dfsOrder.ran
    /\ dfsOrder' = Ran(dfsPostOrder(structure, startArg))
    /\ UNCHANGED <<startArg, bfsOrder, utilVars, storeVars, vf2Vars>>

TravInit ==
    /\ structure \in UtilStructures
    /\ validation = NotRun /\ order = NotRun
    /\ TravIdle /\ StoreIdle /\ VF2Idle

TravNext == CallBfsFromRoots \/ CallDfsPostOrder

SpecTrav == TravInit /\ [][TravNext]_vars

(* The three orderings applied to one input structure, without a start set *)
OrdersNext == CallTopologicalSort \/ CallBfsFromRoots \/ CallDfsPostOrder

SpecOrders == TravInit /\ [][OrdersNext]_vars

(* Depth-first traversal applied to one input structure, with or without a start set *)
StartInit ==
    /\ structure \in StartStructures
    /\ startArg \in StartSets
    /\ validation = NotRun /\ order = NotRun
    /\ bfsOrder = NotRun /\ dfsOrder = NotRun
    /\ StoreIdle /\ VF2Idle

StartNext == CallDfsPostOrder

SpecStart == StartInit /\ [][StartNext]_vars

----------------------------------------------------------------------------
(* Graph-theoretic vocabulary of the properties *)

IdSet(s) == Range(NodeIds(s))

(* the listed edges whose two ends are listed nodes *)
ValidEdges(s) == {e \in Range(s.edges) : e.from \in IdSet(s) /\ e.to \in IdSet(s)}

Successors(s, S) == {e.to : e \in {d \in ValidEdges(s) : d.from \in S}}

RECURSIVE ReachFrom(_, _)
ReachFrom(s, S) ==
    LET T == S \cup Successors(s, S) IN IF T = S THEN S ELSE ReachFrom(s, T)

OnCycle(s, n) == n \in ReachFrom(s, Successors(s, {n}))

HasCycle(s) == \E n \in IdSet(s) : OnCycle(s, n)

Position(seq, x) == CHOOSE i \in 1..Len(seq) : seq[i] = x

PayloadOf(s, id) == (CHOOSE n \in Range(s.nodes) : n.id = id).data

(* an injective, payload-respecting, edge-preserving assignment of the pattern's nodes *)
IsEmbedding(f, pat, tgt) ==
    /\ \A p1, p2 \in IdSet(pat) : p1 # p2 => f[p1] # f[p2]
    /\ \A p \in IdSet(pat) : dataMatches(PayloadOf(pat, p), PayloadOf(tgt, f[p]))
    /\ \A e \in ValidEdges(pat) : DAGEdge(f[e.from], f[e.to]) \in Range(tgt.edges)

(* no listed edge has an end that is not a listed node *)
NoDangling(s) == Range(s.edges) = ValidEdges(s)

(* a root of the graph: a node no edge of the graph enters *)
GraphRoots(s) == {n \in IdSet(s) : ~ \E e \in ValidEdges(s) : e.to = n}

ReachableFromRoots(s) == ReachFrom(s, GraphRoots(s))

Count(seq, x) == Cardinality({i \in 1..Len(seq) : seq[i] = x})

(* the distinct successors and predecessors of a node in the graph *)
OutDegree(s, n) == Cardinality({e.to : e \in {d \in ValidEdges(s) : d.from = n}})

InDegree(s, n) == Cardinality({e.from : e \in {d \in ValidEdges(s) : d.to = n}})

----------------------------------------------------------------------------
(* Properties of the matcher (SpecVF2) *)

(* C1: whenever the matcher returns a mapping M, every pattern edge (p1 -> p2), *)
(* self-loops included, has (M(p1) -> M(p2)) among the target's edges.          *)
C1_EveryPatternEdgeMapped ==
    match.status = "map" =>
        \A e \in ValidEdges(pattern) :
            DAGEdge(MapGet(match.mapping, e.from), MapGet(match.mapping, e.to))
                \in Range(target.edges)

(* C2: the matcher returns null only if no injective assignment of all pattern *)
(* nodes exists that respects payload equality and maps every pattern edge     *)
(* onto a target edge.                                                         *)
C2_NullOnlyIfNoEmbedding ==
    match.status = "null" =>
        ~ \E f \in [IdSet(pattern) -> IdSet(target)] : IsEmbedding(f, pattern, target)

(* C3: for the payload-free single-edge pattern p -> q and the payload-free    *)
(* diamond target the matcher returns a non-empty mapping M with (M(p), M(q))  *)
(* an edge of the target.                                                      *)
C3_SingleEdgeInDiamond ==
    (pattern = SingleEdgePattern /\ target = DiamondTarget /\ match.status # "unset") =>
        /\ match.status = "map"
        /\ Len(match.mapping) > 0
        /\ DAGEdge(MapGet(match.mapping, "p"), MapGet(match.mapping, "q"))
               \in Range(target.edges)

(* C4: a returned mapping is a function whose domain is exactly the pattern's  *)
(* node ids, whose values are target node ids, and which sends no two pattern  *)
(* nodes to the same target node, however much backtracking preceded it.       *)
C4_MappingTotalInjective ==
    match.status = "map" =>
        /\ NoRepeat(MapKeys(match.mapping))
        /\ Range(MapKeys(match.mapping)) = IdSet(pattern)
        /\ Range(MapValues(match.mapping)) \subseteq IdSet(target)
        /\ NoRepeat(MapValues(match.mapping))

(* a mapping of two pattern nodes returned after at least one assignment was undone *)
C4_Witness ==
    /\ match.status = "map"
    /\ Len(match.mapping) >= 2
    /\ match.undone > 0

----------------------------------------------------------------------------
(* Properties of the validator and of topologicalSort (SpecUtil) *)

(* C5: for an acyclic structure topologicalSort returns every node id exactly  *)
(* once and nothing else, with u before v for every edge (u -> v).             *)
C5_TopologicalOrder ==
    (order.ran /\ ~HasCycle(structure)) =>
        /\ NoRepeat(order.value)
        /\ Range(order.value) = IdSet(structure)
        /\ \A e \in ValidEdges(structure) :
              Position(order.value, e.from) < Position(order.value, e.to)

(* C6: validateDAG reports isAcyclic = false with a non-empty cycles list      *)
(* exactly when the graph has a directed cycle (self-loops included); for an   *)
(* acyclic graph the cycles list is absent and isAcyclic = true.               *)
C6_CycleReportedIffCyclic ==
    validation.ran =>
        LET v == validation.value IN
        /\ HasCycle(structure) <=>
              (~v.isAcyclic /\ v.cycles.present /\ Len(v.cycles.value) > 0)
        /\ ~HasCycle(structure) => (v.isAcyclic /\ ~v.cycles.present)

(* a cycle that lies in a component the first-listed node does not reach *)
C6_Witness ==
    /\ validation.ran
    /\ ~validation.value.isAcyclic
    /\ Len(structure.nodes) = 3
    /\ \A n \in ReachFrom(structure, {structure.nodes[1].id}) : ~OnCycle(structure, n)

(* C7: every reported cycle has at least two entries, starts and ends with the *)
(* same identifier, and each consecutive pair is an edge of the structure.     *)
C7_CyclesAreClosedWalks ==
    (validation.ran /\ validation.value.cycles.present) =>
        \A c \in Range(validation.value.cycles.value) :
            /\ Len(c) >= 2
            /\ c[1] = c[Len(c)]
            /\ \A i \in 1..(Len(c) - 1) : DAGEdge(c[i], c[i + 1]) \in Range(structure.edges)

(* C8: isAcyclic is true exactly when topologicalSort returns as many          *)
(* identifiers as the structure lists nodes.                                   *)
C8_AcyclicIffFullOrder ==
    (validation.ran /\ order.ran) =>
        (validation.value.isAcyclic <=> Len(order.value) = Len(structure.nodes))

(* the nodes on a cycle or reachable from one *)
CycleBound(s) == ReachFrom(s, {n \in IdSet(s) : OnCycle(s, n)})

(* C15: when the graph has a cycle, topologicalSort omits exactly the nodes on *)
(* a cycle or reachable from one; every other node appears exactly once, and   *)
(* u precedes v for every edge (u -> v) between two output nodes.              *)
C15_CyclicOrderOmitsCycleBound ==
    (order.ran /\ HasCycle(structure)) =>
        /\ \A n \in IdSet(structure) :
              Count(order.value, n) = IF n \in CycleBound(structure) THEN 0 ELSE 1
        /\ \A e \in ValidEdges(structure) :
              (e.from \in Range(order.value) /\ e.to \in Range(order.value)) =>
                  Position(order.value, e.from) < Position(order.value, e.to)

(* C16: isValid is true exactly when no edge has a missing end and no cycle    *)
(* was found; isAcyclic depends on the cycles alone, so an acyclic structure   *)
(* with a dangling edge is acyclic and invalid; orphan nodes never make a      *)
(* structure invalid.                                                          *)
C16_ValidIffNoDanglingNoCycle ==
    validation.ran =>
        LET v == validation.value IN
        /\ v.isValid <=> (NoDangling(structure) /\ ~HasCycle(structure))
        /\ v.isAcyclic <=> ~HasCycle(structure)
        /\ v.missingReferences.present <=> ~NoDangling(structure)

(* an acyclic structure with a dangling edge and an orphan node *)
C16_Witness ==
    /\ validation.ran
    /\ validation.value.isAcyclic /\ ~validation.value.isValid
    /\ validation.value.orphanNodes.present
    /\ validation.value.missingReferences.present

(* a valid structure that has an orphan node *)
C16_WitnessOrphan ==
    /\ validation.ran
    /\ validation.value.isValid
    /\ validation.value.orphanNodes.present
    /\ Len(structure.edges) > 0

----------------------------------------------------------------------------
(* Properties of the Graph Store (SpecStore) *)

Registered(id) == MapHas(nodeMap, id)

(* the edges the two adjacency maps hold, as (from, to) pairs *)
OutgoingPairs ==
    UNION {{<<e.key, to>> : to \in Range(e.value)} : e \in Range(outgoingEdges)}

IncomingPairs ==
    UNION {{<<from, e.key>> : from \in Range(e.value)} : e \in Range(incomingEdges)}

(* C9: addEdge(from, to) leaves every adjacency set unchanged unless both ends *)
(* are registered nodes, and after load(structure) the adjacency holds only    *)
(* edges of the structure whose two ends are nodes of the structure.           *)
C9_NoDanglingEdgeStored ==
    [][/\ \A from, to \in StoreIds :
             (CallAddEdge(from, to) /\ ~(Registered(from) /\ Registered(to)))
                 => UNCHANGED <<outgoingEdges, incomingEdges>>
       /\ \A s \in LoadStructures :
             CallLoad(s) =>
                 (OutgoingPairs' \cup IncomingPairs')
                     \subseteq {<<e.from, e.to>> : e \in ValidEdges(s)}]_vars

(* C10: after any sequence of store operations, b is in the outgoing set of a  *)
(* exactly when a is in the incoming set of b.                                 *)
C10_AdjacencyMutuallyConsistent == OutgoingPairs = IncomingPairs

(* C11: after any sequence of store operations the node map, the outgoing map  *)
(* and the incoming map have the same key set.                                 *)
C11_SameKeySets ==
    /\ Range(MapKeys(outgoingEdges)) = Range(MapKeys(nodeMap))
    /\ Range(MapKeys(incomingEdges)) = Range(MapKeys(nodeMap))

(* one node is left registered while an adjacency set still names the other id *)
C11_Witness ==
    /\ Len(nodeMap) = 1
    /\ OutgoingPairs \cup IncomingPairs # {}
    /\ \E pr \in OutgoingPairs \cup IncomingPairs : ~Registered(pr[1]) \/ ~Registered(pr[2])

(* what removeNode(id) must leave behind, apart from the case of an unknown id *)
RemovedAndScrubbed(id) ==
    /\ ~Registered(id)'
    /\ ~MapHas(outgoingEdges', id) /\ ~MapHas(incomingEdges', id)
    /\ \A other \in StoreIds \ {id} :
          /\ Registered(other)' = Registered(other)
          /\ Registered(other) => MapGet(nodeMap', other) = MapGet(nodeMap, other)
    /\ OutgoingPairs' = {pr \in OutgoingPairs : pr[1] # id /\ pr[2] # id}
    /\ IncomingPairs' = {pr \in IncomingPairs : pr[1] # id /\ pr[2] # id}

(* C13: after removeNode(id) the id is no registered node, no key of outgoing  *)
(* or incoming and a member of no adjacency set; other nodes and the edges not *)
(* incident to id are unchanged; removeNode of an unknown id changes nothing.  *)
C13_RemoveNodeEffect ==
    [][\A id \in StoreIds :
          CallRemoveNode(id) =>
              /\ RemovedAndScrubbed(id)
              /\ ~Registered(id) => UNCHANGED storeVars]_vars

EdgePairs(s) == {<<e.from, e.to>> : e \in Range(s.edges)}

(* C14: for a structure without dangling edges, load(structure) on an empty    *)
(* store followed at once by toStructure() gives the same set of node ids and  *)
(* the same set of edges as the input.                                         *)
C14_LoadExportRoundTrip ==
    [][\A s \in LoadStructures :
          (StoreIdle /\ NoDangling(s) /\ CallLoad(s)) =>
              LET out == toStructure(Store') IN
              /\ IdSet(out) = IdSet(s)
              /\ EdgePairs(out) = EdgePairs(s)]_vars

(* the store right after such a load of two nodes joined by one directed edge *)
C14_Witness ==
    \E s \in LoadStructures :
        /\ NoDangling(s) /\ Len(s.nodes) = 2
        /\ EdgePairs(s) = {<<"b", "a">>}
        /\ Store = load(EmptyDAG, s)

----------------------------------------------------------------------------
(* Properties of the traversals (SpecTrav) *)

(* C12: without a start set, bfsFromRoots and dfsPostOrder each return every   *)
(* node reachable from some root exactly once and no node that no root reaches. *)
C12_RootTraversalsCoverReachable ==
    /\ bfsOrder.ran =>
          \A n \in IdSet(structure) :
              Count(bfsOrder.value, n) = IF n \in ReachableFromRoots(structure) THEN 1 ELSE 0
    /\ dfsOrder.ran =>
          \A n \in IdSet(structure) :
              Count(dfsOrder.value, n) = IF n \in ReachableFromRoots(structure) THEN 1 ELSE 0

(* C18: a pattern without nodes gets the empty mapping, whatever the target;   *)
(* otherwise a pattern with more nodes than the target gets null and search()  *)
(* is never entered.                                                           *)
C18_ShortCircuits ==
    match.status # "unset" =>
        /\ Len(pattern.nodes) = 0 =>
              match.status = "map" /\ match.mapping = <<>>
        /\ (Len(pattern.nodes) > 0 /\ Len(pattern.nodes) > Len(target.nodes)) =>
              match.status = "null" /\ match.calls = 0 /\ match.trials = <<>>

(* a pattern of two nodes refused against a target of one node *)
C18_Witness ==
    /\ match.status = "null" /\ match.calls = 0
    /\ Len(pattern.nodes) = 2 /\ Len(target.nodes) = 1

(* the empty pattern matched against a target that has nodes and an edge *)
C18_WitnessEmptyPattern ==
    /\ match.status = "map" /\ match.mapping = <<>>
    /\ Len(pattern.nodes) = 0 /\ Len(target.nodes) > 0 /\ Len(target.edges) > 0

C19_WitnessIsolated ==
    /\ match.status = "map"
    /\ \E p \in IdSet(pattern) :
          /\ InDegree(pattern, p) = 0 /\ OutDegree(pattern, p) = 0
          /\ Position(NodeIds(target), MapGet(match.mapping, p)) > 1
    /\ ValidEdges(target) # {}

(* the payload check and the degree check of one pair, stated on the graphs *)
PairAdmissible(pat, tgt, p, t) ==
    LET pIn == InDegree(pat, p)
        pOut == OutDegree(pat, p)
    IN  /\ dataMatches(PayloadOf(pat, p), PayloadOf(tgt, t))
        /\ pIn = 0 => OutDegree(tgt, t) = pOut
        /\ pOut = 0 => InDegree(tgt, t) = pIn
        /\ (pIn > 0 /\ pOut > 0) => (InDegree(tgt, t) = pIn /\ OutDegree(tgt, t) = pOut)

(* the total injective assignments whose pairs all pass and that map every    *)
(* pattern edge between two distinct pattern nodes onto a target edge         *)
Admissible(pat, tgt) ==
    {f \in [IdSet(pat) -> IdSet(tgt)] :
        /\ \A p1, p2 \in IdSet(pat) : p1 # p2 => f[p1] # f[p2]
        /\ \A p \in IdSet(pat) : PairAdmissible(pat, tgt, p, f[p])
        /\ \A e \in ValidEdges(pat) :
              e.from # e.to => DAGEdge(f[e.from], f[e.to]) \in ValidEdges(tgt)}

(* an assignment read in pattern-listed order as target-listed positions *)
ListedKey(f, pat, tgt) ==
    [i \in 1..Len(pat.nodes) |-> Position(NodeIds(tgt), f[NodeIds(pat)[i]])]

LexLess(a, b) ==
    \E i \in 1..Len(a) : a[i] < b[i] /\ \A j \in 1..(i - 1) : a[j] = b[j]

Returned == [p \in IdSet(pattern) |-> MapGet(match.mapping, p)]

C20_WitnessExhausted ==
    /\ match.status = "null"
    /\ match.undone >= 2
    /\ Len(pattern.nodes) >= 2

----------------------------------------------------------------------------
(* Properties of the core on malformed content (SpecMalformed) *)

(* C17: no core operation ends in an exception, whatever the structures hold   *)
(* (dangling or repeated edges, repeated node identifiers, self-loops,         *)
(* cycles): here, the matcher never throws.                                    *)
C17_NoOperationThrows == match.status # "throw"

----------------------------------------------------------------------------
(* Properties of the traversals from a start set (SpecStart) *)

(* C21: on an acyclic graph dfsPostOrder appends a node only after all of its  *)
(* children: for every edge (u -> v) of the graph with u in the output, v is   *)
(* in the output before u; and when the start set repeats a node or its nodes  *)
(* reach a common descendant, every node still appears at most once.           *)
C21_PostOrderChildrenFirst ==
    dfsOrder.ran =>
        /\ ~HasCycle(structure) =>
              \A e \in ValidEdges(structure) :
                  e.from \in Range(dfsOrder.value) =>
                      /\ e.to \in Range(dfsOrder.value)
                      /\ Position(dfsOrder.value, e.to) < Position(dfsOrder.value, e.from)
        /\ startArg.given =>
              \A n \in IdSet(structure) : Count(dfsOrder.value, n) <= 1

(* two start nodes with a common child, the first start node listed twice *)
C21_Witness ==
    /\ dfsOrder.ran /\ startArg.given
    /\ ~HasCycle(structure)
    /\ \E u, w, v \in IdSet(structure) :
          /\ u # w /\ u # v /\ w # v
          /\ {DAGEdge(u, v), DAGEdge(w, v)} \subseteq ValidEdges(structure)
          /\ {u, w} \subseteq Range(startArg.ids)
          /\ dfsOrder.value = <<v, u, w>>

(* a start set that lists one node twice *)
C21_WitnessRepeatedStart ==
    /\ dfsOrder.ran /\ startArg.given
    /\ Len(startArg.ids) = 2 /\ startArg.ids[1] = startArg.ids[2]
    /\ startArg.ids[1] \in IdSet(structure)
    /\ Len(dfsOrder.value) >= 2

----------------------------------------------------------------------------
(* Properties of the three orderings (SpecOrders) *)

(* the output lists only nodes of the structure, each at most once *)
NodesOnce(out, s) == Range(out) \subseteq IdSet(s) /\ NoRepeat(out)

(* C22: for every input structure, dangling and repeated edges included, the   *)
(* outputs of topologicalSort, of bfsFromRoots without a start set and of      *)
(* dfsPostOrder without a start set hold only identifiers of listed nodes, and *)
(* none of them twice.                                                         *)
C22_OutputsAreNodesOnce ==
    /\ order.ran => NodesOnce(order.value, structure)
    /\ bfsOrder.ran => NodesOnce(bfsOrder.value, structure)
    /\ dfsOrder.ran => NodesOnce(dfsOrder.value, structure)

====
